---- MODULE Spec2Model ----
(***************************************************************************)
(* ImageCrawler (src/image_crawler.py): the traversal loop of crawl() and  *)
(* the helpers it calls.  The Selenium driver is the environment: what it  *)
(* returns to each query (element lists, attributes, the URL it ends on,   *)
(* a timeout or an exception) is an input of the action that queries it.   *)
(*                                                                         *)
(* A URL string is a record [scheme, host, path]:                          *)
(*   scheme://host/path   scheme and host non-empty                        *)
(*   //host/path          scheme empty, host non-empty                     *)
(*   /path                scheme and host empty, path >= 1                 *)
(*   ""                   all empty (path 0)                               *)
(*   javascript:..., mailto:...   scheme only                              *)
(*   None                 scheme "none"                                    *)
(*                                                                         *)
(* Spec is a run on an arbitrary site, failures and an interrupt possible; *)
(* ChainSpec is a run on a site of chained pages where nothing fails;      *)
(* FnSpec applies get_absolute_url, the image merge, has_next_page and the *)
(* loop over the pager elements of go_to_next_page to bounded arguments.   *)
(***************************************************************************)
EXTENDS Integers, Sequences, FiniteSets, TLC

\* The seed's host serves the paths 1..MaxPath.
MaxPath == 3
\* The seed's host serves the images 1..MaxImg.
MaxImg == 2
\* MAX_PAGES is drawn from 0..MaxCap.
MaxCap == 2
\* find_elements returns at most MaxElems elements.
MaxElems == 2
\* A chained site has 1..MaxChain pages.
MaxChain == 3
\* Each page of a chained site shows 0..MaxPer images.
MaxPer == 2
\* int(os.getenv('MAX_PAGES', 10))
DefaultMaxPages == 10

VARIABLES
    base_url,      \* self.base_url (START_URL), NoneURL when unset
    max_pages,     \* self.max_pages
    driver,        \* the WebDriver session: "open" or "quit"
    driver_url,    \* self.driver.current_url, NoneURL for the blank page
    visited_urls,  \* self.visited_urls
    image_urls,    \* self.image_urls
    current_url,   \* crawl(): current_url
    page_count,    \* crawl(): page_count
    pc,            \* position in crawl()
    gn_current,    \* go_to_next_page(): current_url
    gn_left,       \* go_to_next_page(): elements left in the for loop
    visits,        \* history: how many times line 535 added a URL
    load_status,   \* history: how extract_images ended in this step
    exit_reason,   \* history: why the loop was left
    report,        \* history: what generate_html_report did
    nav,           \* history: the navigation to a next page in this step:
                   \* by what, whether to a visited URL, whether to the
                   \* first candidate of the document, whether away from
                   \* the URL the driver was at
    pager,         \* history: what has_next_page met in this step
    site,          \* the site the driver renders
    fn             \* a helper applied on its own: its arguments and results

vars == <<base_url, max_pages, driver, driver_url, visited_urls, image_urls,
          current_url, page_count, pc, gn_current, gn_left, visits,
          load_status, exit_reason, report, nav, pager, site, fn>>

----------------------------------------------------------------------------
\* URLs

U(s, h, p) == [scheme |-> s, host |-> h, path |-> p]

NoneURL == U("none", "", 0)
EmptyURL == U("", "", 0)
JsURL == U("javascript", "", 0)
MailtoURL == U("mailto", "", 0)

Paths == 1..MaxPath
SeedHost == "a"
Seed == U("http", SeedHost, 1)

\* The URLs the driver can be at: the pages of the seed's host and one
\* page of another host.
PageURLs == {U("http", SeedHost, p) : p \in Paths} \cup {U("http", "b", 1)}

\* `not url`
Falsy(url) == url = NoneURL \/ url = EmptyURL

\* url.startswith(('http://', 'https://'))
StartsWithHttp(url) == url.scheme \in {"http", "https"}

\* urllib.parse.uses_relative, as far as the schemes of the model go
UsesRelative == {"", "http", "https", "ftp"}

urljoin(base, url) ==
    IF url = EmptyURL THEN base
    ELSE LET scheme == IF url.scheme = "" THEN base.scheme ELSE url.scheme IN
         IF scheme # base.scheme \/ scheme \notin UsesRelative THEN url
         ELSE IF url.host # "" THEN U(scheme, url.host, url.path)
         ELSE U(scheme, base.host,
                IF url.path = 0 THEN base.path ELSE url.path)

\* urlparse(url).netloc
netloc(url) == url.host

is_valid_url(base, url) ==
    IF Falsy(url) \/ url.scheme \in {"javascript", "mailto"} THEN FALSE
    ELSE LET abs == IF StartsWithHttp(url) THEN url ELSE urljoin(base, url)
         IN  netloc(abs) = netloc(base)

\* urljoin(self.base_url, urlparse(url).path) for every url.
get_absolute_url_rebase(base, url) == urljoin(base, U("", "", url.path))

get_absolute_url(base, url) ==
    IF StartsWithHttp(url) THEN url ELSE urljoin(base, url)

\* 'page' in href.lower(), 'p=' in href.lower(): path k is spelled
\* /page/k when k = 2 mod 3, /?p=k when k = 0 mod 3, /k otherwise.
ContainsPage(url) == url.path % 3 = 2
ContainsPEq(url) == url.path # 0 /\ url.path % 3 = 0

SeqsUpTo(S, n) == UNION {[1..k -> S] : k \in 0..n}

----------------------------------------------------------------------------
\* The site.  kind "any": every query of the driver can return anything
\* (the site is arbitrary and may change between queries).  kind "chain":
\* pages 1..pages of the seed's host, page i with a visible, enabled
\* a[rel='next'] to page i + 1 (none on the last page) and with `per`
\* images of its own; nothing fails.

AnySite == [kind |-> "any", pages |-> 0, per |-> 0]

ChainSites ==
    {[kind |-> "chain", pages |-> n, per |-> k] :
        n \in 1..MaxChain, k \in 0..MaxPer}

\* Page url of the chain has a next page.
ChainHasNext(url) == url.host = SeedHost /\ url.path < site.pages

ChainNextUrl(url) == U("http", SeedHost, url.path + 1)

\* The <img> elements of page url of the chain.
ChainImgs(url) ==
    [j \in 1..site.per |->
        [src |-> U("http", SeedHost, (url.path - 1) * site.per + j),
         data_src |-> NoneURL, stale |-> FALSE]]

----------------------------------------------------------------------------
\* extract_images

\* src values of <img> elements
ImgSrcs == {NoneURL, JsURL, U("http", "b", 1), U("", "", 1)}
           \cup {U("http", SeedHost, i) : i \in 1..MaxImg}

\* An <img> element: its src and data-src attributes, and whether reading
\* them raises (a stale element).
ImgElems ==
    {[src |-> s, data_src |-> NoneURL, stale |-> FALSE] : s \in ImgSrcs \ {NoneURL}}
    \cup {[src |-> NoneURL, data_src |-> d, stale |-> FALSE] :
            d \in {NoneURL, U("http", SeedHost, 1)}}
    \cup {[src |-> NoneURL, data_src |-> NoneURL, stale |-> TRUE]}

\* HarvestOne without the is_valid_url test.
HarvestOne_unfiltered(base, img) ==
    IF img.stale THEN {}
    ELSE LET src == IF Falsy(img.src) THEN img.data_src ELSE img.src IN
         IF ~Falsy(src) THEN {get_absolute_url(base, src)} ELSE {}

\* The body of the for loop over one element.
HarvestOne(base, img) ==
    IF img.stale THEN {}
    ELSE LET src == IF Falsy(img.src) THEN img.data_src ELSE img.src IN
         IF ~Falsy(src) /\ is_valid_url(base, src)
         THEN {get_absolute_url(base, src)} ELSE {}

RECURSIVE Harvest(_, _)
Harvest(base, imgs) ==
    IF imgs = <<>> THEN {}
    ELSE HarvestOne(base, Head(imgs)) \cup Harvest(base, Tail(imgs))

LoadOutcomes == {"ok", "timeout", "error"}

\* How a page load can end on the site.
LoadOutcomesAt == IF site.kind = "any" THEN LoadOutcomes ELSE {"ok"}

\* The lists of up to MaxElems <img> elements.
ImgLists == SeqsUpTo(ImgElems, MaxElems)

\* A load that fails does not get to find_elements: one element at most
\* stands for what the page holds then.
UnreadImgLists == {imgs \in ImgLists : Len(imgs) <= 1}

\* What find_elements(By.TAG_NAME, 'img') can return on page url.
ImgListsAt(url) ==
    IF site.kind = "any" THEN ImgLists
    ELSE {ChainImgs(url)}

\* self.image_urls replaced by the page's images.
MergeImages_replace(acc, images) == IF images # {} THEN images ELSE acc

\* self.image_urls ^= images
MergeImages_toggle(acc, images) ==
    IF images # {} THEN (acc \ images) \cup (images \ acc) ELSE acc

\* Lines 539-540: if images: self.image_urls.update(images)
MergeImages(acc, images) == IF images # {} THEN acc \cup images ELSE acc

\* extract_images keeping what it harvested when the load fails.
extract_images_partial(base, outcome, imgs) == Harvest(base, imgs)

\* What extract_images returns: the harvest, or set() from an except clause.
extract_images(base, outcome, imgs) ==
    IF outcome = "ok" THEN Harvest(base, imgs) ELSE {}

----------------------------------------------------------------------------
\* extract_links

\* An <a> element: its href, and whether reading it raises.
AnchorElems ==
    {[href |-> h, stale |-> FALSE] :
        h \in PageURLs \cup {NoneURL, MailtoURL}}
    \cup {[href |-> NoneURL, stale |-> TRUE]}

LinkOne(base, a) ==
    IF a.stale THEN {}
    ELSE IF ~Falsy(a.href) /\ is_valid_url(base, a.href)
         THEN {get_absolute_url(base, a.href)} ELSE {}

RECURSIVE Links(_, _)
Links(base, anchors) ==
    IF anchors = <<>> THEN {}
    ELSE LinkOne(base, Head(anchors)) \cup Links(base, Tail(anchors))

\* The lists of up to MaxElems <a> elements.
AnchorLists == SeqsUpTo(AnchorElems, MaxElems)

\* What find_elements(By.TAG_NAME, 'a') can return on page url.
AnchorListsAt(url) ==
    IF site.kind = "any" THEN AnchorLists
    ELSE IF ChainHasNext(url)
         THEN {<<[href |-> ChainNextUrl(url), stale |-> FALSE]>>}
         ELSE {<<>>}

\* unvisited_links without the test of visited_urls.
Unvisited_all(links, visited) == links

\* Line 553: [link for link in links if link not in self.visited_urls],
\* as a set: links is a set, its order is not the document's.
Unvisited(links, visited) == links \ visited

\* The link of the first anchor, in the order of the document, that
\* extract_links keeps and that is not visited; NoneURL if there is none.
RECURSIVE FirstUnvisited(_, _, _)
FirstUnvisited(base, anchors, visited) ==
    IF anchors = <<>> THEN NoneURL
    ELSE LET l == LinkOne(base, Head(anchors)) \ visited IN
         IF l # {} THEN CHOOSE link \in l : TRUE
         ELSE FirstUnvisited(base, Tail(anchors), visited)

\* What extract_links returns: the set of links, or set() from an except
\* clause.
extract_links(base, outcome, anchors) ==
    IF outcome = "ok" THEN Links(base, anchors) ELSE {}

----------------------------------------------------------------------------
\* has_next_page

\* What the checks of one matched element give: "ok" (displayed and
\* enabled), "hidden", "disabled", or "raises".
ButtonChecks == {"ok", "hidden", "disabled", "raises"}

\* Only the first matched element is examined.
AnyClickable_first(buttons) == buttons # <<>> /\ Head(buttons) = "ok"

RECURSIVE AnyClickable(_)
AnyClickable(buttons) ==
    IF buttons = <<>> THEN FALSE
    ELSE Head(buttons) = "ok" \/ AnyClickable(Tail(buttons))

\* The lists of up to MaxElems matched elements, each with what its
\* checks give.
CheckLists == SeqsUpTo(ButtonChecks, MaxElems)

\* What find_elements can return on the page the driver is at: the blank
\* page of a fresh session has no elements.
MatchesAt(url) ==
    IF url = NoneURL THEN {<<>>}
    ELSE IF site.kind = "any" THEN CheckLists
    ELSE IF ChainHasNext(url) THEN {<<"ok">>} ELSE {<<>>}

\* The only element the selectors match is hidden or disabled.
OnlyBlocked(buttons) ==
    Len(buttons) = 1 /\ buttons[1] \in {"hidden", "disabled"}

\* Whether find_elements can raise on the site.
QueryOutcomesAt == IF site.kind = "any" THEN {"ok", "error"} ELSE {"ok"}

\* outcome "error": find_elements raises.
has_next_page(outcome, buttons) ==
    IF outcome = "ok" THEN AnyClickable(buttons) ELSE FALSE

----------------------------------------------------------------------------
\* go_to_next_page

\* A matched pager element: its checks, its href and what click() and the
\* waits after it do.
Buttons ==
    {[check |-> c, href |-> NoneURL, click |-> "ok"] :
        c \in ButtonChecks \ {"ok"}}
    \cup {[check |-> "ok", href |-> h, click |-> k] :
            h \in PageURLs \cup {NoneURL}, k \in {"ok", "raise"}}

\* The pager elements go_to_next_page can meet on page url, and how many
\* it can find there.
ButtonsAt(url) ==
    IF site.kind = "any" THEN Buttons
    ELSE {[check |-> "ok", href |-> ChainNextUrl(url), click |-> "ok"]}

ButtonCountsAt(url) ==
    IF site.kind = "any" THEN 0..MaxElems
    ELSE IF ChainHasNext(url) THEN {1} ELSE {0}

\* if next_url and next_url != current_url
ButtonCond(href, cur) == ~Falsy(href) /\ href # cur

\* Lines 230-248 for one element: it is displayed and enabled, its href
\* is a distinct URL, and the click and the waits after it do not raise.
Activates(b, cur) ==
    b.check = "ok" /\ ButtonCond(b.href, cur) /\ b.click = "ok"

\* Lines 228-251: the index of the element the loop over next_buttons
\* clicks and returns from, the elements in the order find_elements
\* returned them (the document's); 0 when the loop ends without a return.
RECURSIVE FirstActivated(_, _, _)
FirstActivated(buttons, cur, i) ==
    IF i > Len(buttons) THEN 0
    ELSE IF Activates(buttons[i], cur) THEN i
    ELSE FirstActivated(buttons, cur, i + 1)

\* The hrefs a[href*='page'], a[href*='p='], a[href*='/2'] can match.
HeurHrefs == PageURLs

\* if href and href != current_url and 'page' in href.lower()
\*    or 'p=' in href.lower()
HeurCond(href, cur) ==
    (~Falsy(href) /\ href # cur /\ ContainsPage(href)) \/ ContainsPEq(href)

----------------------------------------------------------------------------
\* crawl

LoopCond_le(cur, count, cap) == ~Falsy(cur) /\ (cap = 0 \/ count <= cap)

\* while current_url and (self.max_pages == 0 or page_count < self.max_pages)
LoopCond(cur, count, cap) == ~Falsy(cur) /\ (cap = 0 \/ count < cap)

AlreadyVisited_never(url, visited) == FALSE

\* if current_url in self.visited_urls
AlreadyVisited(url, visited) == url \in visited

LoopPcs == {"loop", "extract_images", "has_next", "go_next", "go_buttons",
            "go_links", "fallback"}

NoNav ==
    [via |-> "none", visited |-> FALSE, in_order |-> TRUE, distinct |-> TRUE]

\* No helper is applied on its own.
FnIdle == [op |-> "none"]

ConfigUnchanged == UNCHANGED <<base_url, max_pages, site, fn>>

\* The state __init__ leaves, the configuration aside.
InitRun ==
    /\ driver = "open"
    /\ driver_url = NoneURL
    /\ visited_urls = {}
    /\ image_urls = {}
    /\ current_url = NoneURL
    /\ page_count = 0
    /\ pc = "start"
    /\ gn_current = NoneURL
    /\ gn_left = 0
    /\ visits = 0
    /\ load_status = "none"
    /\ exit_reason = "none"
    /\ report = "none"
    /\ nav = NoNav
    /\ pager = "none"

Init ==
    /\ base_url \in {NoneURL, Seed}
    /\ max_pages \in 0..MaxCap
    /\ site = AnySite
    /\ fn = FnIdle
    /\ InitRun

\* A run on a chained site, nothing failing.
ChainInit ==
    /\ base_url = Seed
    /\ max_pages \in 0..MaxCap \cup {DefaultMaxPages}
    /\ site \in ChainSites
    /\ fn = FnIdle
    /\ InitRun

\* crawl without the test of START_URL.
NoSeed_never(base) == FALSE

\* Line 518: if not self.base_url
NoSeed(base) == Falsy(base)

\* Lines 516-525: the test of START_URL, then current_url and page_count.
CrawlStart ==
    /\ pc = "start"
    /\ IF NoSeed(base_url)
       THEN /\ pc' = "done"
            /\ exit_reason' = "noseed"
            /\ UNCHANGED <<current_url, page_count>>
       ELSE /\ current_url' = base_url
            /\ page_count' = 0
            /\ pc' = "loop"
            /\ UNCHANGED exit_reason
    /\ ConfigUnchanged
    /\ UNCHANGED pager
    /\ UNCHANGED <<driver, driver_url, visited_urls,
                   image_urls, gn_current, gn_left, visits, load_status,
                   report, nav>>

\* Lines 528-535: the loop test, the visited test, visited_urls.add.
LoopCheck ==
    /\ pc = "loop"
    /\ IF ~LoopCond(current_url, page_count, max_pages)
       THEN /\ pc' = "report"
            /\ exit_reason' = "cap"
            /\ UNCHANGED <<visited_urls, visits, load_status, nav, pager>>
       ELSE IF AlreadyVisited(current_url, visited_urls)
       THEN /\ pc' = "report"
            /\ exit_reason' = "visited"
            /\ UNCHANGED <<visited_urls, visits, load_status, nav, pager>>
       ELSE /\ visited_urls' = visited_urls \cup {current_url}
            /\ visits' = visits + 1
            /\ load_status' = "none"
            /\ nav' = NoNav
            /\ pager' = "none"
            /\ pc' = "extract_images"
            /\ UNCHANGED exit_reason
    /\ ConfigUnchanged
    /\ UNCHANGED <<driver, driver_url, image_urls, current_url, page_count,
                   gn_current, gn_left, report>>

\* Lines 538-541: images = self.extract_images(current_url); update.
ExtractImages ==
    /\ pc = "extract_images"
    /\ \E outcome \in LoadOutcomesAt :
       \E imgs \in IF outcome = "ok" THEN ImgListsAt(current_url)
                   ELSE UnreadImgLists :
         LET images == extract_images(base_url, outcome, imgs) IN
         /\ image_urls' = MergeImages(image_urls, images)
         /\ load_status' = outcome
         /\ driver_url' \in IF outcome = "ok" THEN {current_url}
                            ELSE {driver_url, current_url}
    /\ pc' = "has_next"
    /\ ConfigUnchanged
    /\ UNCHANGED pager
    /\ UNCHANGED <<driver, visited_urls, current_url, page_count, gn_current,
                   gn_left, visits, exit_reason, report, nav>>

\* Line 544: if self.has_next_page().
HasNextPage ==
    /\ pc = "has_next"
    /\ \E outcome \in QueryOutcomesAt,
          buttons \in MatchesAt(driver_url) :
         /\ pc' = IF has_next_page(outcome, buttons) THEN "go_next"
                  ELSE "fallback"
         /\ pager' = IF outcome = "ok" /\ OnlyBlocked(buttons)
                     THEN "blocked" ELSE "none"
    /\ ConfigUnchanged
    /\ UNCHANGED <<driver, driver_url, visited_urls, image_urls, current_url,
                   page_count, gn_current, gn_left, visits, load_status,
                   exit_reason, report, nav>>

\* Lines 546-549 without page_count += 1.
AfterGoNext_nocount(next_url) ==
    IF ~Falsy(next_url) /\ next_url # current_url
    THEN /\ current_url' = next_url
         /\ pc' = "loop"
         /\ UNCHANGED page_count
    ELSE /\ pc' = "fallback"
         /\ UNCHANGED <<current_url, page_count>>

\* Lines 546-549 for the value go_to_next_page returned.
AfterGoNext(next_url) ==
    IF ~Falsy(next_url) /\ next_url # current_url
    THEN /\ current_url' = next_url
         /\ page_count' = page_count + 1
         /\ pc' = "loop"
    ELSE /\ pc' = "fallback"
         /\ UNCHANGED <<current_url, page_count>>

\* Lines 219-223: current_url = self.driver.current_url (outside the try),
\* then find_elements (inside it).
GoNextStart ==
    /\ pc = "go_next"
    /\ \/ \* driver.current_url raises: nothing in go_to_next_page catches
          \* it, crawl's except Exception does (line 568).
          /\ "error" \in QueryOutcomesAt
          /\ pc' = "cleanup"
          /\ exit_reason' = "error"
          /\ UNCHANGED <<gn_current, gn_left>>
       \/ \* find_elements raises: line 270, return None.
          /\ "error" \in QueryOutcomesAt
          /\ pc' = "fallback"
          /\ UNCHANGED <<gn_current, gn_left, exit_reason>>
       \/ /\ gn_current' = driver_url
          /\ gn_left' \in ButtonCountsAt(driver_url)
          /\ pc' = "go_buttons"
          /\ UNCHANGED exit_reason
    /\ ConfigUnchanged
    /\ UNCHANGED pager
    /\ UNCHANGED <<driver, driver_url, visited_urls, image_urls, current_url,
                   page_count, visits, load_status, report, nav>>

\* Lines 225-251: one iteration of the loop over next_buttons.
GoNextButton ==
    /\ pc = "go_buttons"
    /\ gn_left > 0
    /\ \E b \in ButtonsAt(gn_current) :
         IF Activates(b, gn_current)
         THEN \* clicked, the URL changed to the href:
              \* return self.driver.current_url
              /\ driver_url' = b.href
              /\ nav' = [via |-> "click", visited |-> b.href \in visited_urls,
                         in_order |-> TRUE, distinct |-> b.href # gn_current]
              /\ gn_left' = 0
              /\ gn_current' = NoneURL
              /\ AfterGoNext(b.href)
         ELSE \* not clickable, no distinct href, or click/wait raised
              /\ gn_left' = gn_left - 1
              /\ UNCHANGED <<driver_url, nav, current_url, page_count, pc,
                             gn_current>>
    /\ ConfigUnchanged
    /\ UNCHANGED pager
    /\ UNCHANGED <<driver, visited_urls, image_urls, visits,
                   load_status, exit_reason, report>>

\* Line 254: the loop over next_buttons is over, find the heuristic links.
GoNextFindLinks ==
    /\ pc = "go_buttons"
    /\ gn_left = 0
    /\ \/ \* find_elements raises: line 270, return None.
          /\ pc' = "fallback"
          /\ gn_current' = NoneURL
          /\ UNCHANGED gn_left
       \/ /\ gn_left' \in 0..MaxElems
          /\ pc' = "go_links"
          /\ UNCHANGED gn_current
    /\ ConfigUnchanged
    /\ UNCHANGED pager
    /\ UNCHANGED <<driver, driver_url, visited_urls, image_urls, current_url,
                   page_count, visits, load_status,
                   exit_reason, report, nav>>

\* Lines 255-266: one iteration of the loop over next_links.
GoNextLink ==
    /\ pc = "go_links"
    /\ gn_left > 0
    /\ \E href \in HeurHrefs, get \in {"ok", "raise"} :
         IF HeurCond(href, gn_current) /\ get = "ok"
         THEN \* self.driver.get(href); return self.driver.current_url
              /\ driver_url' = href
              /\ nav' = [via |-> "heuristic", visited |-> href \in visited_urls,
                         in_order |-> TRUE, distinct |-> href # gn_current]
              /\ gn_left' = 0
              /\ gn_current' = NoneURL
              /\ AfterGoNext(href)
         ELSE /\ gn_left' = gn_left - 1
              /\ UNCHANGED <<driver_url, nav, current_url, page_count, pc,
                             gn_current>>
    /\ ConfigUnchanged
    /\ UNCHANGED pager
    /\ UNCHANGED <<driver, visited_urls, image_urls, visits,
                   load_status, exit_reason, report>>

\* Line 268: return None.
GoNextNone ==
    /\ pc = "go_links"
    /\ gn_left = 0
    /\ pc' = "fallback"
    /\ gn_current' = NoneURL
    /\ ConfigUnchanged
    /\ UNCHANGED pager
    /\ UNCHANGED <<driver, driver_url, visited_urls, image_urls, current_url,
                   page_count, gn_left, visits, load_status,
                   exit_reason, report, nav>>

\* Lines 552-559: extract_links, the unvisited links, the next cursor.
\* links is a Python set: unvisited_links[0] is any of its elements.
\* A load that fails does not get to find_elements.
Fallback ==
    /\ pc = "fallback"
    /\ \E outcome \in LoadOutcomesAt :
       \E anchors \in IF outcome = "ok" THEN AnchorListsAt(current_url)
                      ELSE {<<>>} :
         LET links == extract_links(base_url, outcome, anchors)
             unvisited_links == Unvisited(links, visited_urls)
         IN  /\ driver_url' \in IF outcome = "ok" THEN {current_url}
                                ELSE {driver_url, current_url}
             /\ IF unvisited_links # {}
                THEN \E link \in unvisited_links :
                       /\ current_url' = link
                       /\ page_count' = page_count + 1
                       /\ nav' = [via |-> "fallback",
                                  visited |-> link \in visited_urls,
                                  in_order |->
                                      \/ unvisited_links = {link}
                                      \/ link = FirstUnvisited(
                                            base_url, anchors, visited_urls),
                                  distinct |-> link # current_url]
                       /\ pc' = "loop"
                       /\ UNCHANGED exit_reason
                ELSE /\ pc' = "report"
                     /\ exit_reason' = "exhausted"
                     /\ UNCHANGED <<current_url, page_count, nav>>
    /\ ConfigUnchanged
    /\ UNCHANGED pager
    /\ UNCHANGED <<driver, visited_urls, image_urls, gn_current, gn_left,
                   visits, load_status, report>>

\* KeyboardInterrupt inside the loop: line 566, then finally.
Interrupt ==
    /\ pc \in LoopPcs
    /\ pc' = "cleanup"
    /\ exit_reason' = "interrupt"
    /\ gn_current' = NoneURL
    /\ gn_left' = 0
    /\ ConfigUnchanged
    /\ UNCHANGED pager
    /\ UNCHANGED <<driver, driver_url, visited_urls, image_urls, current_url,
                   page_count, visits, load_status,
                   report, nav>>

\* generate_html_report without the test of image_urls.
ReportOutcome_always(images) == "written"

\* Lines 276-278 and 510-512: generate_html_report returns at once when
\* image_urls is empty, and writes index.html otherwise.
ReportOutcome(images) == IF images = {} THEN "empty" ELSE "written"

\* Lines 562-564 and 276-278, 510-512: generate_html_report.
GenerateReport ==
    /\ pc = "report"
    /\ report' = ReportOutcome(image_urls)
    /\ pc' = "cleanup"
    /\ ConfigUnchanged
    /\ UNCHANGED pager
    /\ UNCHANGED <<driver, driver_url, visited_urls, image_urls, current_url,
                   page_count, gn_current, gn_left, visits, load_status,
                   exit_reason, nav>>

\* Lines 571, 573-579: finally: self.cleanup().
Cleanup ==
    /\ pc = "cleanup"
    /\ driver' = "quit"
    /\ pc' = "done"
    /\ ConfigUnchanged
    /\ UNCHANGED pager
    /\ UNCHANGED <<driver_url, visited_urls, image_urls, current_url,
                   page_count, gn_current, gn_left, visits, load_status,
                   exit_reason, report, nav>>

Next ==
    \/ CrawlStart
    \/ LoopCheck
    \/ ExtractImages
    \/ HasNextPage
    \/ GoNextStart
    \/ GoNextButton
    \/ GoNextFindLinks
    \/ GoNextLink
    \/ GoNextNone
    \/ Fallback
    \/ Interrupt
    \/ GenerateReport
    \/ Cleanup

Spec == Init /\ [][Next]_vars

\* On a chained site no query fails, the pager's control is always
\* clickable, and nobody interrupts.
ChainNext ==
    \/ CrawlStart
    \/ LoopCheck
    \/ ExtractImages
    \/ HasNextPage
    \/ GoNextStart
    \/ GoNextButton
    \/ Fallback
    \/ GenerateReport
    \/ Cleanup

ChainSpec == ChainInit /\ [][ChainNext]_vars

----------------------------------------------------------------------------
\* The helpers applied on their own, to every argument of a bounded set.
\* fn.res is the sequence of the results so far: get_absolute_url and the
\* merge are applied to their own result a second time.

\* The url arguments of get_absolute_url: absolute http and https URLs,
\* other schemes, //host/path, relative paths and the empty string.
AbsArgs ==
    PageURLs
    \cup {U("https", h, 1) : h \in {SeedHost, "b"}}
    \cup {U("", "", p) : p \in Paths}
    \cup {U("", "b", 1), U("ftp", SeedHost, 1), EmptyURL, JsURL, MailtoURL}

\* The sets of image URLs that are merged.
ImageSets == SUBSET {U("http", SeedHost, i) : i \in 1..MaxImg}

\* The sources a matched pager element can come from: the configured
\* PAGER_SELECTOR or one of the four conventional selectors of the union
\* (lines 196, 223).
SelectorKinds == {"configured", "conventional"}

KindButtons ==
    {[kind |-> k, check |-> b.check, href |-> b.href, click |-> b.click] :
        k \in SelectorKinds, b \in Buttons}

FnCalls ==
    {[op |-> "get_absolute_url", arg |-> [url |-> u], res |-> <<>>] :
        u \in AbsArgs}
    \cup {[op |-> "merge", arg |-> [acc |-> a, images |-> h], res |-> <<>>] :
            a \in ImageSets, h \in ImageSets}
    \cup {[op |-> "has_next_page", arg |-> [outcome |-> o, buttons |-> bs],
           res |-> <<>>] :
            o \in {"ok", "error"}, bs \in CheckLists}
    \cup {[op |-> "go_to_next_page", arg |-> [buttons |-> bs], res |-> <<>>] :
            bs \in SeqsUpTo(KindButtons, MaxElems)}

FnInit ==
    /\ base_url \in {Seed, U("https", SeedHost, 2)}
    /\ max_pages = DefaultMaxPages
    /\ site = AnySite
    /\ fn \in FnCalls
    /\ InitRun

FnUnchanged ==
    UNCHANGED <<base_url, max_pages, driver, driver_url, visited_urls,
                image_urls, current_url, page_count, pc, gn_current, gn_left,
                visits, load_status, exit_reason, report, nav, pager, site>>

ApplyGetAbsoluteUrl ==
    /\ fn.op = "get_absolute_url"
    /\ Len(fn.res) < 2
    /\ LET url == IF fn.res = <<>> THEN fn.arg.url ELSE fn.res[Len(fn.res)]
       IN  fn' = [fn EXCEPT !.res = Append(@, get_absolute_url(base_url, url))]
    /\ FnUnchanged

ApplyMerge ==
    /\ fn.op = "merge"
    /\ Len(fn.res) < 2
    /\ LET acc == IF fn.res = <<>> THEN fn.arg.acc ELSE fn.res[Len(fn.res)]
       IN  fn' = [fn EXCEPT !.res = Append(@, MergeImages(acc, fn.arg.images))]
    /\ FnUnchanged

ApplyHasNextPage ==
    /\ fn.op = "has_next_page"
    /\ fn.res = <<>>
    /\ fn' = [fn EXCEPT
                !.res = <<has_next_page(fn.arg.outcome, fn.arg.buttons)>>]
    /\ FnUnchanged

\* The loop over next_buttons, the driver at the seed.
ApplyGoNextButtons ==
    /\ fn.op = "go_to_next_page"
    /\ fn.res = <<>>
    /\ fn' = [fn EXCEPT !.res = <<FirstActivated(fn.arg.buttons, base_url, 1)>>]
    /\ FnUnchanged

FnNext ==
    \/ ApplyGetAbsoluteUrl
    \/ ApplyMerge
    \/ ApplyHasNextPage
    \/ ApplyGoNextButtons

FnSpec == FnInit /\ [][FnNext]_vars

\* The interpreter runs the next statement whenever there is one.
FairSpec == Spec /\ WF_vars(Next)

----------------------------------------------------------------------------
\* Properties

\* C1: with MAX_PAGES > 0 the Visited Set never holds more than MAX_PAGES
\* URLs.
C1_VisitedWithinCap ==
    max_pages > 0 => Cardinality(visited_urls) <= max_pages

\* C1 witness: the loop was left because the cap was reached, with the
\* Visited Set full.
C1_CapReached ==
    /\ max_pages >= 2
    /\ exit_reason = "cap"
    /\ Cardinality(visited_urls) = max_pages

\* C2: no URL is taken twice as the current page of a step: every addition
\* at line 535 added a URL that was not in the Visited Set.
C2_NoUrlVisitedTwice == visits = Cardinality(visited_urls)

\* C2 witness: after at least two pages the cursor came back to a visited
\* URL and the loop was left instead of visiting it again.
C2_RevisitRefused ==
    /\ exit_reason = "visited"
    /\ visits >= 2
    /\ current_url \in visited_urls

\* C3: every URL in the Visited Set and every URL assigned to the cursor
\* has the seed's host.
C3_CursorInScope ==
    pc # "start" /\ ~Falsy(base_url) =>
        \A u \in visited_urls \cup {current_url} :
            netloc(u) = netloc(base_url)

\* C4: a run interrupted in the loop after images were accumulated still
\* generates the report.
C4_InterruptStillReports ==
    (pc = "done" /\ exit_reason = "interrupt" /\ image_urls # {})
        => report = "written"

\* C5: when a run ends, the renderer has been closed, on every exit path.
C5_RendererClosedAtExit == pc = "done" => driver = "quit"

\* C6: a renderer error in a traversal step never aborts the traversal: a
\* run that is not interrupted and has a seed reaches report generation.
C6_RendererErrorsAbsorbed ==
    /\ exit_reason # "error"
    /\ (pc = "done" /\ exit_reason \notin {"noseed", "interrupt"})
           => report # "none"

\* C7: when the load in extract_images times out, the page adds nothing to
\* the Image Set, its URL is in the Visited Set, and the step goes on to
\* has_next_page.
C7_TimeoutPageIsEmpty ==
    [][(pc = "extract_images" /\ load_status' = "timeout") =>
          /\ image_urls' = image_urls
          /\ current_url \in visited_urls'
          /\ pc' = "has_next"]_vars

\* C7 witness: the load of the current page timed out and the step has
\* reached the fallback link scan.
C7_TimedOutThenFallback ==
    /\ load_status = "timeout"
    /\ pc = "fallback"
    /\ current_url \in visited_urls

\* C8: the renderer is navigated to a next page (pager click, heuristic
\* link, fallback link) only if that URL is not in the Visited Set.
C8_NavigateOnlyToUnvisited ==
    nav.via \in {"click", "heuristic", "fallback"} => ~nav.visited

\* C9: every URL in the Image Set passes is_valid_url against the seed.
C9_ImagesInScope ==
    \A u \in image_urls : is_valid_url(base_url, u)

\* C9 witness: two images were accumulated.
C9_TwoImages == Cardinality(image_urls) >= 2

\* C10: the loop is left only because the current URL is already visited,
\* the non-zero cap is reached, or pager and fallback give no new URL
\* (a run that has a seed and is not interrupted).
C10_DoneOnlyByVisitedCapExhausted ==
    (pc = "done" /\ exit_reason \notin {"noseed", "interrupt"})
        => exit_reason \in {"visited", "cap", "exhausted"}

\* C10, its first half: every run ends.
C10_Terminates == <>(pc = "done")

\* C11: on a chain of 3 pages with 2 images each and MAX_PAGES = 10 the
\* run ends with exactly 3 visited URLs and 6 images, no next page found
\* on page 3.
C11_ThreePageChain ==
    (/\ site = [kind |-> "chain", pages |-> 3, per |-> 2]
     /\ max_pages = DefaultMaxPages
     /\ pc = "done")
        => /\ Cardinality(visited_urls) = 3
           /\ Cardinality(image_urls) = 6
           /\ exit_reason = "exhausted"

\* C11 witness: that run has ended and written its report.
C11_ChainDone ==
    /\ site = [kind |-> "chain", pages |-> 3, per |-> 2]
    /\ max_pages = DefaultMaxPages
    /\ pc = "done"
    /\ report = "written"

\* C12: when the only element the pager selectors match is hidden or
\* disabled, has_next_page is false, go_to_next_page is not called in that
\* step, the fallback scan runs, and when it moves the cursor it moves it
\* to an unvisited link of the seed's host.
C12_BlockedPagerFallsBack ==
    [][/\ pager' = "blocked" => pc' \notin {"go_next", "go_buttons", "go_links"}
       /\ (pc = "has_next" /\ pager' = "blocked") => pc' = "fallback"
       /\ (pager = "blocked" /\ pc = "fallback" /\ pc' = "loop")
            => /\ nav'.via = "fallback"
               /\ current_url' \notin visited_urls
               /\ netloc(current_url') = netloc(base_url)
       /\ (pager = "blocked" /\ pc = "fallback" /\ pc' = "report")
            => exit_reason' = "exhausted"]_vars

\* C12 witness: after a blocked pager the fallback scan moved the cursor.
C12_BlockedThenLink ==
    /\ pager = "blocked"
    /\ nav.via = "fallback"
    /\ pc = "loop"

\* C13: with START_URL unset the run stops at once: nothing is visited, the
\* driver loads no page, and no report is produced.
C13_NoSeedNoRun ==
    Falsy(base_url)
        => /\ pc \in {"start", "done"}
           /\ visited_urls = {}
           /\ visits = 0
           /\ driver_url = NoneURL
           /\ report = "none"

\* C13 witness: crawl has returned for an unset START_URL.
C13_NoSeedReturned ==
    /\ Falsy(base_url)
    /\ pc = "done"
    /\ exit_reason = "noseed"

\* C14: get_absolute_url applied to its own result returns that result,
\* and an absolute http or https URL is returned as it is.
C14_AbsoluteIdempotent ==
    fn.op = "get_absolute_url"
        => /\ Len(fn.res) = 2 => fn.res[2] = fn.res[1]
           /\ (Len(fn.res) >= 1 /\ StartsWithHttp(fn.arg.url))
                => fn.res[1] = fn.arg.url

\* C14 witness: a URL that get_absolute_url changed went through it again.
C14_ResolvedTwice ==
    /\ fn.op = "get_absolute_url"
    /\ Len(fn.res) = 2
    /\ fn.res[1] # fn.arg.url

\* C15: merging the same harvest a second time leaves the image set as it
\* was after the first merge, and a URL that is in the set already and in
\* the harvest too is counted once in the result.
C15_MergeIdempotent ==
    (fn.op = "merge" /\ Len(fn.res) >= 1)
        => /\ fn.arg.acc \cup fn.arg.images \subseteq fn.res[1]
           /\ Cardinality(fn.res[1])
                = Cardinality(fn.arg.acc)
                  + Cardinality(fn.arg.images \ fn.arg.acc)
           /\ Len(fn.res) = 2 => fn.res[2] = fn.res[1]

\* C15 witness: a harvest that shares a URL with the set and brings a new
\* one was merged twice.
C15_SharedMergedTwice ==
    /\ fn.op = "merge"
    /\ Len(fn.res) = 2
    /\ fn.arg.acc \cap fn.arg.images # {}
    /\ fn.arg.images \ fn.arg.acc # {}

\* C16: the link the fallback step moves the cursor to is the first
\* unvisited link of the seed's host in the order of the anchors on the
\* page.
C16_FallbackFirstInDocument == nav.via = "fallback" => nav.in_order

\* C18: the heuristic link scan navigates the driver only to a link whose
\* href differs from the URL the driver is at.
C18_HeuristicOnlyDistinct == nav.via = "heuristic" => nav.distinct

\* C17: go_to_next_page activates a control of a conventional selector
\* only if no control of the configured selector yields a distinct URL,
\* and goes on to the heuristic link scan only if no matched control
\* yields one.
C17_ConfiguredBeforeConventional ==
    (fn.op = "go_to_next_page" /\ fn.res # <<>>)
        => LET buttons == fn.arg.buttons
               i == fn.res[1]
           IN  /\ (i # 0 /\ buttons[i].kind = "conventional")
                    => \A j \in 1..Len(buttons) :
                         buttons[j].kind = "configured"
                            => ~Activates(buttons[j], base_url)
               /\ i = 0 => \A j \in 1..Len(buttons) :
                             ~Activates(buttons[j], base_url)

\* C19: has_next_page returns True exactly when the query succeeds and
\* some matched element is displayed and enabled; no match, only hidden or
\* disabled matches, a raising check and a raising query give False.
C19_HasNextIffClickable ==
    (fn.op = "has_next_page" /\ fn.res # <<>>)
        => (fn.res[1] <=>
              /\ fn.arg.outcome = "ok"
              /\ \E i \in 1..Len(fn.arg.buttons) : fn.arg.buttons[i] = "ok")

\* C19 witness: has_next_page got past an element whose check raised and
\* returned True for the element after it.
C19_SecondElementClickable ==
    /\ fn.op = "has_next_page"
    /\ fn.res = <<TRUE>>
    /\ Len(fn.arg.buttons) = 2
    /\ fn.arg.buttons[1] = "raises"

\* C20: visited_urls and image_urls only grow, on every step of a run,
\* the steps of the error and interrupt paths included.
C20_SetsOnlyGrow ==
    [][/\ visited_urls \subseteq visited_urls'
       /\ image_urls \subseteq image_urls']_vars

\* C20 witness: a run that had visited two pages and harvested two
\* images was interrupted and has ended.
C20_GrownThenInterrupted ==
    /\ pc = "done"
    /\ exit_reason = "interrupt"
    /\ Cardinality(visited_urls) >= 2
    /\ Cardinality(image_urls) >= 2

\* C21: whenever the loop condition of crawl() is about to be evaluated,
\* page_count equals the number of visited URLs; after the start,
\* page_count changes exactly in the steps that change the cursor, and
\* then by one.
C21_CounterMatchesVisited ==
    [][/\ pc' = "loop" => page_count' = Cardinality(visited_urls')
       /\ pc # "start"
            => /\ (page_count' # page_count) <=> (current_url' # current_url)
               /\ page_count' \in {page_count, page_count + 1}]_vars

\* C21 witness: the loop condition is evaluated for the third time.
C21_ThirdEvaluation ==
    /\ pc = "loop"
    /\ page_count = 2
    /\ Cardinality(visited_urls) = 2

\* The loop condition is about to be evaluated after go_to_next_page
\* returned a URL that differs from the cursor and is visited already:
\* lines 546-549 made it the cursor.
PagerReturnedVisited ==
    /\ pc = "loop"
    /\ nav.via \in {"click", "heuristic"}
    /\ nav.visited

\* C22: when go_to_next_page returns a URL that differs from the cursor
\* but is visited already, the next step leaves the loop, by the visited
\* test or the cap (or an interrupt), and the run goes to its end without
\* the fallback link scan.
C22_VisitedPagerEndsCrawl ==
    [][/\ PagerReturnedVisited' => current_url' \in visited_urls'
       /\ PagerReturnedVisited
            => /\ pc' \in {"report", "cleanup"}
               /\ exit_reason' \in {"visited", "cap", "interrupt"}
       /\ pc \in {"report", "cleanup", "done"}
            => pc' \in {"report", "cleanup", "done"}]_vars

\* C22 witness: the run has ended on the visited URL a clicked pager
\* element led to.
C22_EndedOnVisited ==
    /\ nav.via = "click"
    /\ nav.visited
    /\ pc = "done"
    /\ exit_reason = "visited"

\* C23: a report is written exactly when the loop ended without an
\* exception or interrupt and image_urls is not empty; with image_urls
\* empty generate_html_report writes nothing.
C23_ReportIffNormalEndWithImages ==
    LET normal == exit_reason \in {"visited", "cap", "exhausted"} IN
    /\ report = "written" => (normal /\ image_urls # {})
    /\ (pc = "done" /\ normal /\ image_urls # {}) => report = "written"
    /\ (pc = "done" /\ normal /\ image_urls = {}) => report = "empty"
    /\ (pc = "done" /\ ~normal) => report = "none"

\* C23 witness: a run that reached its cap with images has ended with its
\* report written.
C23_CapRunReported ==
    /\ pc = "done"
    /\ exit_reason = "cap"
    /\ image_urls # {}
    /\ report = "written"
====
